---- MODULE Spec2Model ----
(***************************************************************************)
(* State-machine model of lib/DriverTool/swift_parse_test_main.cpp: the    *)
(* parser benchmark driver (swift_parse_test_main), the per-executor run   *)
(* (perform<Executor>), the timing probe (measure<Duration>) and the two   *)
(* executors' performParse.                                                *)
(*                                                                         *)
(* Durations are std::chrono::nanoseconds counts.  TLC integers are 32 bit *)
(* wide, so the per-call durations drawn below stay in the microsecond to  *)
(* millisecond range and the one product that leaves that range            *)
(* (totalBytes * 10^9) is computed by MulDiv, which is exact.              *)
(***************************************************************************)
EXTENDS Integers, Sequences

\* ---------------------------------------------------------------- bounds
MaxExecutors == 2
MaxIterations == 2
MaxBuffers == 2

\* ------------------------------------------------------ program constants
\* duration_t = std::chrono::nanoseconds: period = 1 / 10^9 second.
PeriodNum == 1
PeriodDen == 1000000000
\* std::clock() ticks per second (POSIX value).
CLOCKS_PER_SEC == 1000000
\* nanoseconds per std::chrono::milliseconds tick (duration_cast target).
NanosPerMilli == 1000000

\* enum class Executor
ExecutorModes == {"SwiftParser", "LibParse"}

\* Executor::name of the struct a mode dispatches to.
ExecutorName(mode) == IF mode = "SwiftParser" THEN "SwiftParser" ELSE "libParse"

Success == "success"
NotSupported == "SwiftParser is not supported"

\* The n-th file of the corpus: its size in bytes and its number of '\n'
\* characters.  A corpus is the first n files, n in 0 .. MaxBuffers.
BufferAt(n) == [size |-> 24 - 4 * n, lines |-> 6 - n]
Corpus(n) == [x \in 1 .. n |-> BufferAt(x)]

\* What one parse call can cost: steady_clock nanoseconds and std::clock
\* ticks.  A fast call costs no measurable time; CPU time is measured in
\* clock ticks and accumulates below the millisecond.  Both clocks are read
\* as non-decreasing (steady_clock by definition, std::clock with a 64-bit
\* clock_t that does not wrap during a run).
Timings == { [wall |-> 0, ticks |-> 0],
             [wall |-> 700000, ticks |-> 600] }

VARIABLES
  Executors,      \* options.Executors: the selected modes, in command-line order
  Iterations,     \* options.Iterations
  buffers,        \* the loaded corpus
  swiftSyntax,    \* SWIFT_BUILD_SWIFT_SYNTAX of this build
  pc,             \* position of the single thread
  byteCount, lineCount,
  k,              \* position of `for (auto mode : options.Executors)`
  i, j,           \* perform: iteration index, buffers already visited in it
  tDuration, cDuration,   \* perform: accumulated wall / CPU nanoseconds
  err,            \* the llvm::Error in flight
  exitStatus,     \* return value of swift_parse_test_main (-1: not returned)
  steadyClock,    \* std::chrono::steady_clock::now(), nanoseconds
  cpuClock,       \* std::clock(), ticks
  trace           \* program-order history: lines written and calls made

vars == << Executors, Iterations, buffers, swiftSyntax, pc, byteCount,
           lineCount, k, i, j, tDuration, cDuration, err, exitStatus,
           steadyClock, cpuClock, trace >>

\* Sequences over S of length 0..n
RECURSIVE SeqsUpTo(_, _)
SeqsUpTo(S, n) ==
  IF n = 0 THEN { <<>> }
  ELSE LET shorter == SeqsUpTo(S, n - 1)
       IN shorter \cup { Append(s, x) : s \in { t \in shorter : Len(t) = n - 1 }, x \in S }

\* ----------------------------------------------------------- trace events
\* A line written to llvm::outs() ("out") or llvm::errs() ("err").  run is
\* the position in Executors of the perform call that wrote it, 0 for main.
Line(stream, kind, run, str, num) ==
  [ev |-> "line", stream |-> stream, kind |-> kind, run |-> run,
   str |-> str, num |-> num]
\* Entry into measure(), the body's Executor::performParse call, return
\* from measure().
MeasureBegin(run) == [ev |-> "measure", run |-> run]
ParseCall(run, iter, buf, result) ==
  [ev |-> "parse", run |-> run, iter |-> iter, buf |-> buf, result |-> result]
MeasureEnd(run) == [ev |-> "measured", run |-> run]

\* ------------------------------------------------------- pure computations
\* LibParseExecutor::performParse / SwiftParserExecutor::performParse.
performParse(mode, built) ==
  IF mode = "LibParse" THEN Success
  ELSE IF built THEN Success ELSE NotSupported

\* measure<Duration>: the clock samples taken around body() to the pair
\* (wall duration, CPU duration).
clockMultiply ==
  IF CLOCKS_PER_SEC > 0 THEN (PeriodDen \div CLOCKS_PER_SEC) \div PeriodNum ELSE 0

measure(cStart, tStart, cEnd, tEnd) ==
  << tEnd - tStart, (cEnd - cStart) * clockMultiply >>

\* floor(a * b / c) for a, b >= 0 and c > 0 without forming a * b:
\* a * b = a * (b \div c) * c + a * (b % c).
MulDiv(a, b, c) == a * (b \div c) + (a * (b % c)) \div c

\* std::chrono::duration_cast<std::chrono::milliseconds>(d).count()
ToMillis(d) == d \div NanosPerMilli

\* `if (cDuration.count() > 0)`
HasThroughput_ms(c) == ToMillis(c) > 0

HasThroughput_secs(c) == c \div PeriodDen > 0

HasThroughput(c) == c > 0

byteTPS(totalBytes, c) == MulDiv(totalBytes, PeriodDen, c)
lineTPS(totalLines, c) == MulDiv(totalLines, PeriodDen, c)

\* byteCount / lineCount: the sums main forms over the buffers.  They are
\* unsigned int in the source; the corpora here stay far below 2^32, so the
\* wrap-around never happens and is not modelled.
RECURSIVE SumSizes(_)
SumSizes(bs) == IF bs = <<>> THEN 0 ELSE bs[1].size + SumSizes(Tail(bs))
RECURSIVE SumLines(_)
SumLines(bs) == IF bs = <<>> THEN 0 ELSE bs[1].lines + SumLines(Tail(bs))

\* ------------------------------------------------------------------- Init
Init ==
  /\ Executors \in SeqsUpTo(ExecutorModes, MaxExecutors)
  /\ Iterations \in 0 .. MaxIterations
  /\ buffers \in { Corpus(n) : n \in 0 .. MaxBuffers }
  /\ swiftSyntax \in BOOLEAN
  /\ pc = "main"
  /\ byteCount = 0 /\ lineCount = 0
  /\ k = 0 /\ i = 0 /\ j = 0
  /\ tDuration = 0 /\ cDuration = 0
  /\ err = Success
  /\ exitStatus = -1
  /\ steadyClock = 0 /\ cpuClock = 0
  /\ trace = <<>>

\* `mode` of `for (auto mode : options.Executors)` at position k.
CurrentMode_reversed == Executors[Len(Executors) + 1 - k]

CurrentMode == Executors[k]

\* `if (err) return err;` after a measured call.
ShouldReturn_never(result) == FALSE

ShouldReturn(result) == result # Success

\* ---------------------------------------------------------------- actions
\* swift_parse_test_main up to its executor loop: corpus totals, preamble.
MainStart ==
  /\ pc = "main"
  /\ byteCount' = SumSizes(buffers)
  /\ lineCount' = SumLines(buffers)
  /\ trace' = trace \o << Line("out", "file count", 0, "", Len(buffers)),
                          Line("out", "total bytes", 0, "", SumSizes(buffers)),
                          Line("out", "total lines", 0, "", SumLines(buffers)),
                          Line("out", "iterations", 0, "", Iterations) >>
  /\ err' = Success
  /\ k' = 1
  /\ pc' = "executors"
  /\ UNCHANGED << Executors, Iterations, buffers, swiftSyntax, i, j, tDuration,
                  cDuration, exitStatus, steadyClock, cpuClock >>

\* The executor loop takes the next mode and enters perform<Executor>:
\* header lines, zeroed accumulators.
PerformBegin_carry ==
  /\ pc = "executors"
  /\ err = Success
  /\ k <= Len(Executors)
  /\ trace' = trace \o << Line("out", "----", k, "", 0),
                          Line("out", "parser", k, ExecutorName(CurrentMode), 0) >>
  /\ i' = 0
  /\ j' = 0
  /\ pc' = "perform"
  /\ UNCHANGED << Executors, Iterations, buffers, swiftSyntax, byteCount,
                  lineCount, k, err, exitStatus, steadyClock, cpuClock,
                  tDuration, cDuration >>

PerformBegin ==
  /\ pc = "executors"
  /\ err = Success
  /\ k <= Len(Executors)
  /\ trace' = trace \o << Line("out", "----", k, "", 0),
                          Line("out", "parser", k, ExecutorName(CurrentMode), 0) >>
  /\ tDuration' = 0
  /\ cDuration' = 0
  /\ i' = 0
  /\ j' = 0
  /\ pc' = "perform"
  /\ UNCHANGED << Executors, Iterations, buffers, swiftSyntax, byteCount,
                  lineCount, k, err, exitStatus, steadyClock, cpuClock >>

\* One pass of the inner loop body: measure one performParse call; on error
\* return it to main, whose `if (err) break;` leaves the executor loop.
PerformParse ==
  /\ pc = "perform"
  /\ i < Iterations
  /\ j < Len(buffers)
  /\ \E tm \in Timings :
       LET cStart == cpuClock
           tStart == steadyClock
           result == performParse(CurrentMode, swiftSyntax)
           cEnd == cpuClock + tm.ticks
           tEnd == steadyClock + tm.wall
           elapsed == measure(cStart, tStart, cEnd, tEnd)
       IN /\ cpuClock' = cEnd
          /\ steadyClock' = tEnd
          /\ trace' = trace \o << MeasureBegin(k),
                                  ParseCall(k, i, j + 1, result),
                                  MeasureEnd(k) >>
          /\ err' = result
          /\ IF ShouldReturn(result)
               THEN /\ pc' = "executors"
                    /\ UNCHANGED << tDuration, cDuration, j >>
               ELSE /\ tDuration' = tDuration + elapsed[1]
                    /\ cDuration' = cDuration + elapsed[2]
                    /\ j' = j + 1
                    /\ pc' = "perform"
  /\ UNCHANGED << Executors, Iterations, buffers, swiftSyntax, byteCount,
                  lineCount, k, i, exitStatus >>

\* The inner loop is exhausted: next outer iteration.
PerformNextIteration_skip ==
  /\ pc = "perform"
  /\ i < Iterations
  /\ j = Len(buffers)
  /\ i' = i + 2
  /\ j' = 0
  /\ UNCHANGED << Executors, Iterations, buffers, swiftSyntax, pc, byteCount,
                  lineCount, k, tDuration, cDuration, err, exitStatus,
                  steadyClock, cpuClock, trace >>

PerformNextIteration ==
  /\ pc = "perform"
  /\ i < Iterations
  /\ j = Len(buffers)
  /\ i' = i + 1
  /\ j' = 0
  /\ UNCHANGED << Executors, Iterations, buffers, swiftSyntax, pc, byteCount,
                  lineCount, k, tDuration, cDuration, err, exitStatus,
                  steadyClock, cpuClock, trace >>

\* The lines perform prints after its loops.
ReportLines_zero(run, t, c, totalBytes, totalLines) ==
  << Line("out", "wall clock time (ms)", run, "", ToMillis(t)),
     Line("out", "cpu time (ms)", run, "", ToMillis(c)) >>
  \o << Line("out", "throughput (byte/s)", run, "",
              IF c > 0 THEN byteTPS(totalBytes, c) ELSE 0),
         Line("out", "throughput (line/s)", run, "",
              IF c > 0 THEN lineTPS(totalLines, c) ELSE 0) >>

ReportLines_wallgate(run, t, c, totalBytes, totalLines) ==
  (IF ToMillis(t) > 0
     THEN << Line("out", "wall clock time (ms)", run, "", ToMillis(t)) >>
     ELSE << >>)
  \o << Line("out", "cpu time (ms)", run, "", ToMillis(c)) >>
  \o (IF HasThroughput(c)
        THEN << Line("out", "throughput (byte/s)", run, "", byteTPS(totalBytes, c)),
                Line("out", "throughput (line/s)", run, "", lineTPS(totalLines, c)) >>
        ELSE << >>)

ReportLines(run, t, c, totalBytes, totalLines) ==
  << Line("out", "wall clock time (ms)", run, "", ToMillis(t)),
     Line("out", "cpu time (ms)", run, "", ToMillis(c)) >>
  \o (IF HasThroughput(c)
        THEN << Line("out", "throughput (byte/s)", run, "", byteTPS(totalBytes, c)),
                Line("out", "throughput (line/s)", run, "", lineTPS(totalLines, c)) >>
        ELSE << >>)

\* Both loops are done: print the report, return success; main moves on to
\* the next selected executor.
PerformReport ==
  /\ pc = "perform"
  /\ i >= Iterations
  /\ trace' = trace \o ReportLines(k, tDuration, cDuration, byteCount, lineCount)
  /\ err' = Success
  /\ k' = k + 1
  /\ pc' = "executors"
  /\ UNCHANGED << Executors, Iterations, buffers, swiftSyntax, byteCount,
                  lineCount, i, j, tDuration, cDuration, exitStatus,
                  steadyClock, cpuClock >>

\* After the executor loop: report the error, if any, and return.
MainExit_zero ==
  /\ pc = "executors"
  /\ (err # Success \/ k > Len(Executors))
  /\ IF err # Success
       THEN /\ trace' = Append(trace, Line("err", "error", 0, err, 0))
            /\ exitStatus' = 0
       ELSE /\ trace' = trace
            /\ exitStatus' = 0
  /\ pc' = "done"
  /\ UNCHANGED << Executors, Iterations, buffers, swiftSyntax, byteCount,
                  lineCount, k, i, j, tDuration, cDuration, err, steadyClock,
                  cpuClock >>

MainExit ==
  /\ pc = "executors"
  /\ (err # Success \/ k > Len(Executors))
  /\ IF err # Success
       THEN /\ trace' = Append(trace, Line("err", "error", 0, err, 0))
            /\ exitStatus' = 1
       ELSE /\ trace' = trace
            /\ exitStatus' = 0
  /\ pc' = "done"
  /\ UNCHANGED << Executors, Iterations, buffers, swiftSyntax, byteCount,
                  lineCount, k, i, j, tDuration, cDuration, err, steadyClock,
                  cpuClock >>

Next ==
  \/ MainStart
  \/ PerformBegin
  \/ PerformParse
  \/ PerformNextIteration
  \/ PerformReport
  \/ MainExit

Spec == Init /\ [][Next]_vars


\* ------------------------------------------- reading the recorded history
\* The calls (measure entry, parse, measure return) of the r-th executor run.
CallEvents(r) == SelectSeq(trace, LAMBDA e : e.run = r /\ e.ev # "line")
\* The lines written by the r-th executor run, and those of one kind.
RunLines(r) == SelectSeq(trace, LAMBDA e : e.run = r /\ e.ev = "line")
LinesOf(r, kind) ==
  SelectSeq(trace, LAMBDA e : e.run = r /\ e.ev = "line" /\ e.kind = kind)
\* The kinds of the lines of the r-th report, in order.
Shape(r) == LET ls == RunLines(r) IN [n \in 1 .. Len(ls) |-> ls[n].kind]
\* Positions of the trace holding a parse call.
ParseIdx == { n \in 1 .. Len(trace) : trace[n].ev = "parse" }

\* perform returned success for the r-th selected executor.
Completed(r) == r >= 1 /\ r < k
\* perform has just returned success for executor k - 1: its accumulators
\* are still in tDuration and cDuration.
JustReported == pc \in {"executors", "done"} /\ err = Success /\ k > 1
\* perform has returned an error for executor k.
JustFailed == pc \in {"executors", "done"} /\ err # Success

\* The calls a failure-free run r makes for its first n parse calls over a
\* corpus of b buffers: measure entry, the parse of buffer (n mod b) of
\* iteration (n div b), measure return.
ExpectedCalls(r, n, b) ==
  [m \in 1 .. 3 * n |->
     LET c == (m - 1) \div 3
         pos == (m - 1) % 3
     IN IF pos = 0 THEN MeasureBegin(r)
        ELSE IF pos = 1 THEN ParseCall(r, c \div b, (c % b) + 1, Success)
        ELSE MeasureEnd(r)]

\* ------------------------------------------------------------------ claims

\* C1: a run of perform in which no parse call fails makes exactly
\* Iterations * Len(buffers) parse calls, each inside exactly one measure call
\* that runs its body once, visiting the buffers in corpus order within each
\* iteration.
C1_ExactlyIterationsTimesCorpusCalls ==
  \A r \in 1 .. Len(Executors) :
    Completed(r) =>
      CallEvents(r) = ExpectedCalls(r, Iterations * Len(buffers), Len(buffers))

C1_Witness ==
  /\ pc = "done" /\ exitStatus = 0
  /\ Len(Executors) >= 1 /\ Iterations = 2 /\ Len(buffers) = 2
  /\ Len(CallEvents(1)) = 12

\* C2 (as claimed): with accumulated CPU time > 0 the printed byte and line
\* throughputs are totalBytes * iterations / cpuSeconds and
\* totalLines * iterations / cpuSeconds, truncated, for every iteration count.
C2_ThroughputScaledByIterations ==
  (JustReported /\ cDuration > 0) =>
    /\ Len(LinesOf(k - 1, "throughput (byte/s)")) = 1
    /\ LinesOf(k - 1, "throughput (byte/s)")[1].num
         = MulDiv(byteCount * Iterations, PeriodDen, cDuration)
    /\ Len(LinesOf(k - 1, "throughput (line/s)")) = 1
    /\ LinesOf(k - 1, "throughput (line/s)")[1].num
         = MulDiv(lineCount * Iterations, PeriodDen, cDuration)

\* C3: in every completed report the byte/s and line/s lines are printed if
\* and only if the accumulated CPU time is > 0, always both or neither, and
\* with accumulated CPU time 0 they are omitted, not printed as zero.
C3_ThroughputIffCpuPositive ==
  JustReported =>
    LET nb == Len(LinesOf(k - 1, "throughput (byte/s)"))
        nl == Len(LinesOf(k - 1, "throughput (line/s)"))
    IN /\ nb = nl
       /\ (cDuration > 0) => nb = 1
       /\ (cDuration = 0) => nb = 0
       /\ cDuration >= 0

C3_Witness ==
  /\ JustReported
  /\ cDuration > 0
  /\ Len(LinesOf(k - 1, "throughput (byte/s)")) = 1
  /\ \E r \in 1 .. Len(Executors) :
       r < k - 1 /\ LinesOf(r, "throughput (byte/s)") = <<>>
                 /\ Len(LinesOf(r, "cpu time (ms)")) = 1

\* C4: when a parse call returns a failure perform stops at once: no later
\* parse call of any buffer or iteration, no retry, the same failure is
\* returned to the caller, and that executor prints no wall-clock, CPU or
\* throughput line.
C4_FailureStopsRun ==
  \A n \in ParseIdx :
    trace[n].result # Success =>
      /\ \A m \in ParseIdx : m <= n
      /\ err = trace[n].result
      /\ JustFailed
      /\ k = trace[n].run
      /\ \A m \in 1 .. Len(trace) :
           (trace[m].ev = "line" /\ trace[m].run = trace[n].run) =>
             trace[m].kind \in {"----", "parser"}

C4_Witness ==
  /\ pc = "done" /\ exitStatus = 1
  /\ Iterations = 2 /\ Len(buffers) = 2
  /\ k = 2
  /\ \E n \in ParseIdx : trace[n].result # Success /\ trace[n].run = 2

\* C5: the exit status is 1 exactly when some selected executor's run
\* reported a failure; then exactly one "error: <message>" line is written
\* and no executor selected after the failing one makes a parse call or
\* prints anything.  With no failure the exit status is 0 and no diagnostic
\* is written.
C5_ExitStatusAndDiagnostic ==
  LET failed == { n \in ParseIdx : trace[n].result # Success }
      errors == SelectSeq(trace, LAMBDA e : e.ev = "line" /\ e.stream = "err")
  IN /\ pc # "done" => (exitStatus = -1 /\ errors = <<>>)
     /\ pc = "done" =>
          /\ exitStatus \in {0, 1}
          /\ (exitStatus = 1) <=> (failed # {})
          /\ (failed = {}) => errors = <<>>
          /\ \A n \in failed :
               /\ Len(errors) = 1
               /\ errors[1].kind = "error"
               /\ errors[1].str = trace[n].result
               /\ \A m \in 1 .. Len(trace) : trace[m].run <= trace[n].run

C5_Witness ==
  /\ pc = "done" /\ exitStatus = 1
  /\ Len(Executors) = 2 /\ Executors[2] = "LibParse"
  /\ k = 1
  /\ \E n \in 1 .. Len(trace) : trace[n].ev = "line" /\ trace[n].stream = "err"

\* C6: with an empty corpus or an iteration count of 0 every selected
\* executor, one whose backend is unavailable included, makes no parse call
\* and reports wall time 0 and CPU time 0 with no throughput lines; nothing
\* fails and the exit status is 0.
C6_EmptyRunReportsZero ==
  (Len(buffers) = 0 \/ Iterations = 0) =>
    /\ ParseIdx = {}
    /\ err = Success
    /\ tDuration = 0 /\ cDuration = 0
    /\ \A r \in 1 .. Len(Executors) :
         Completed(r) =>
           /\ Shape(r) = << "----", "parser", "wall clock time (ms)", "cpu time (ms)" >>
           /\ RunLines(r)[3].num = 0
           /\ RunLines(r)[4].num = 0
    /\ pc = "done" => (exitStatus = 0 /\ k = Len(Executors) + 1)

C6_Witness ==
  /\ pc = "done"
  /\ Len(buffers) = 0 /\ Iterations = 2
  /\ ~swiftSyntax
  /\ Len(Executors) = 2 /\ Executors[1] = "SwiftParser"
  /\ Len(RunLines(1)) = 4 /\ Len(RunLines(2)) = 4

\* The four preamble lines main writes.
Preamble ==
  << Line("out", "file count", 0, "", Len(buffers)),
     Line("out", "total bytes", 0, "", SumSizes(buffers)),
     Line("out", "total lines", 0, "", SumLines(buffers)),
     Line("out", "iterations", 0, "", Iterations) >>

\* C7: the preamble is printed once, before any executor's output; the
\* executors run in the order selected (a name selected twice runs twice);
\* each executor's complete report is printed before the first call of the
\* next executor.
C7_OrderedStreamingOutput ==
  /\ trace # <<>> => (Len(trace) >= 4 /\ SubSeq(trace, 1, 4) = Preamble)
  /\ \A n \in 5 .. Len(trace) :
       /\ trace[n].run = 0 => (trace[n].stream = "err" /\ n = Len(trace))
       /\ trace[n].run # 0 =>
            LET a == trace[n - 1]
                b == trace[n]
            IN IF a.run = b.run THEN TRUE
               ELSE /\ b.run = a.run + 1
                    /\ b.ev = "line" /\ b.kind = "----"
                    /\ a.ev = "line"
                    /\ a.run = 0 \/ a.kind \in {"cpu time (ms)", "throughput (line/s)"}
  /\ \A r \in 1 .. Len(Executors) :
       LET ls == RunLines(r)
       IN /\ Len(ls) >= 2 => (ls[2].kind = "parser"
                               /\ ls[2].str = ExecutorName(Executors[r]))
          /\ Completed(r) => Len(LinesOf(r, "cpu time (ms)")) = 1
  /\ (pc = "done" /\ exitStatus = 0) => k = Len(Executors) + 1

C7_Witness ==
  /\ pc = "done" /\ exitStatus = 0
  /\ Executors = << "LibParse", "LibParse" >>
  /\ Iterations = 1 /\ Len(buffers) = 2
  /\ Len(CallEvents(1)) = 6 /\ Len(CallEvents(2)) = 6

\* C8 (as claimed): in every completed report, a printed cpu time (ms) of 0
\* means the throughput lines are omitted.
C8_ZeroPrintedCpuOmitsThroughput ==
  JustReported =>
    (LinesOf(k - 1, "cpu time (ms)")[1].num = 0
       => LinesOf(k - 1, "throughput (byte/s)") = <<>>)

\* C8 (amended): in every completed report the throughput lines are omitted
\* only if the printed cpu time (ms) is 0; a report that prints cpu time 0
\* and still has throughput lines is one whose accumulated CPU time is
\* between 1 and 999999 nanoseconds.
C8_OmittedOnlyIfPrintedCpuZero ==
  JustReported =>
    LET cpuMs == LinesOf(k - 1, "cpu time (ms)")[1].num
        tps == LinesOf(k - 1, "throughput (byte/s)")
    IN /\ cpuMs > 0 => Len(tps) = 1
       /\ (cpuMs = 0 /\ tps # <<>>) => (cDuration >= 1 /\ cDuration < NanosPerMilli)
       /\ cpuMs * NanosPerMilli <= cDuration
       /\ cDuration < (cpuMs + 1) * NanosPerMilli

C8_Witness ==
  /\ JustReported
  /\ LinesOf(k - 1, "cpu time (ms)")[1].num = 1
  /\ Len(LinesOf(k - 1, "throughput (byte/s)")) = 1
  /\ \E r \in 1 .. Len(Executors) :
       /\ r < k - 1
       /\ LinesOf(r, "cpu time (ms)")[1].num = 0
       /\ Len(LinesOf(r, "throughput (byte/s)")) = 1

\* C9 (as claimed): two completed runs of the same executor over the same
\* corpus, options and iteration count print reports with the same fields,
\* whatever durations were measured.
C9_SameShapeWhateverTimings ==
  \A r1, r2 \in 1 .. Len(Executors) :
    (Completed(r1) /\ Completed(r2) /\ Executors[r1] = Executors[r2])
      => Shape(r1) = Shape(r2)

\* C9 (amended): two completed runs of the same executor over the same
\* corpus, options and iteration count print the same separator, parser,
\* wall-clock and cpu lines in the same order; the reports differ at most in
\* whether the two throughput lines follow, which depends on the CPU time
\* measured in each run.
C9_SameShapeUpToThroughput ==
  \A r1, r2 \in 1 .. Len(Executors) :
    (Completed(r1) /\ Completed(r2) /\ Executors[r1] = Executors[r2]) =>
      LET base == << "----", "parser", "wall clock time (ms)", "cpu time (ms)" >>
          full == base \o << "throughput (byte/s)", "throughput (line/s)" >>
      IN /\ Shape(r1) \in {base, full}
         /\ Shape(r2) \in {base, full}
         /\ RunLines(r1)[2].str = RunLines(r2)[2].str

C9_Witness ==
  /\ pc = "done"
  /\ Executors = << "LibParse", "LibParse" >>
  /\ Completed(1) /\ Completed(2)
  /\ Len(Shape(1)) = 4 /\ Len(Shape(2)) = 6

\* C10: within one executor's run the accumulators start at zero, each
\* successful parse call adds exactly the wall and CPU durations the clocks
\* measured around it, a failing call adds nothing, no other step changes
\* them, both are >= 0 and never decrease, and at successful completion
\* exactly Iterations * Len(buffers) calls have been added.
C10_Step ==
  LET newCalls == { n \in (Len(trace) + 1) .. Len(trace') : trace'[n].ev = "parse" }
  IN /\ (pc = "executors" /\ pc' = "perform") => (tDuration' = 0 /\ cDuration' = 0)
     /\ (pc = "perform" /\ newCalls = {}) => UNCHANGED << tDuration, cDuration >>
     /\ pc = "perform" => (tDuration' >= tDuration /\ cDuration' >= cDuration)
     /\ \A n \in newCalls :
          IF trace'[n].result = Success
            THEN /\ tDuration' = tDuration + (steadyClock' - steadyClock)
                 /\ cDuration' = cDuration
                      + (cpuClock' - cpuClock) * (PeriodDen \div CLOCKS_PER_SEC)
            ELSE UNCHANGED << tDuration, cDuration >>

C10_State ==
  /\ tDuration >= 0 /\ cDuration >= 0
  /\ JustReported =>
       Len(CallEvents(k - 1)) = 3 * Iterations * Len(buffers)
  /\ (k = 1 /\ err = Success) =>
       (tDuration = steadyClock /\ cDuration = cpuClock * (PeriodDen \div CLOCKS_PER_SEC))

C10_AccumulatorsAreSums == [](C10_State) /\ [][C10_Step]_vars

C10_Witness ==
  /\ JustReported /\ k = 3
  /\ Iterations = 2 /\ Len(buffers) = 2
  /\ cDuration > 0 /\ tDuration > 0
  /\ steadyClock > tDuration
====
